---- MODULE Spec2Model ----
(***************************************************************************)
(* diract-digester: reassembly of paginated DirAct digests.                *)
(*                                                                         *)
(* The repository holds two variants of the decoder.  Both are modelled    *)
(* and run side by side on the same packets:                               *)
(*   - src/unnamed/part_000       (operators without prefix);              *)
(*   - src/lib/diractdigester.js  (operators prefixed lib_).               *)
(*                                                                         *)
(* JavaScript values:                                                      *)
(*   - an object is a record; a property that is not set (or was deleted)  *)
(*     is a field that is not in the record's DOMAIN;                      *)
(*   - numberOfInteractions is null or a number: null is <<>>, the number  *)
(*     n is <<n>>;                                                         *)
(*   - the sparse array interactions is a function whose DOMAIN is the set *)
(*     of populated indices (Array.prototype.forEach skips the holes);     *)
(*   - the Map digests is a function whose DOMAIN is the set of keys.      *)
(*                                                                         *)
(* Specifications:                                                         *)
(*   - Spec          digest packets, counts above 128;                     *)
(*   - EquivSpec     digest packets, counts not above 128;                 *)
(*   - DispatchSpec  proximity, digest and unknown packets, each handler   *)
(*                   set or not;                                           *)
(*   - DecodeSpec    the decoding functions, applied to every byte.        *)
(***************************************************************************)
EXTENDS Integers, Sequences, FiniteSets, TLC

\* ---------------------------------------------------------------- bounds
MaxDevices == 2         \* devices (instanceId) sending digest pages
MaxEpoch == 2           \* digestTimestamp values 1..MaxEpoch
MaxPage == 1            \* pageNumber values 0..MaxPage
MinEntries == 2         \* entries per page MinEntries..MaxEntries
MaxEntries == 3         \* (a full page has DIRACT_DEVICES_PER_PAGE entries)
MaxTimestamp == 2       \* raddec (capture) timestamps 1..MaxTimestamp
MaxRaddecPackets == 2   \* packets per raddec 1..MaxRaddecPackets
MaxPackets == 3         \* packets processed in one behaviour

\* ------------------------------------------------------ program constants
DIRACT_DEVICES_PER_PAGE == 3
DIRACT_PROXIMITY_SIGNATURE == "ff830501"
DIRACT_DIGEST_SIGNATURE == "ff830511"

\* -------------------------------------------------------------- JS helpers
Null == <<>>
Num(n) == <<n>>
EmptyArray == [i \in {} |-> 0]
HasOwn(obj, f) == f \in DOMAIN obj
Delete(obj, f) == [x \in DOMAIN obj \ {f} |-> obj[x]]
Put(obj, f, v) == [x \in DOMAIN obj \cup {f} |-> IF x = f THEN v ELSE obj[x]]
\* Map.prototype.set
MapSet(map, k, v) == [x \in DOMAIN map \cup {k} |-> IF x = k THEN v ELSE map[x]]
\* bit `bit` (a power of two) of x is set:  (x & bit) === bit
BitSet(x, bit) == (x \div bit) % 2 = 1
\* the quotient n / d of two integers, as the operators / of the source
\* compute it (the divisors are 16, for which the division is exact)
Ratio(n, d) == [num |-> n, den |-> d]
\* the value parseInt(bits, 16) of a string of two hexadecimal digits
Bytes == 0..255

\* ------------------------------------------------------------------ inputs
Devices == 1..MaxDevices
Epochs == 1..MaxEpoch
Timestamps == 1..MaxTimestamp
\* raw count bytes on the wire: a byte above 128, which part_000 rescales and
\* lib/diractdigester.js keeps as it is
RawCounts == {157}
\* frame lengths for which the scan of processDigestPacket reads
\* MinEntries..MaxEntries entries
FrameLengths == {5 * n + 3 : n \in MinEntries..MaxEntries}
\* the byte data.substr(2,2): frame length in the low 5 bits, page number above
HeaderBytes == {32 * pn + fl : pn \in 0..MaxPage, fl \in FrameLengths}
\* the 3 bytes data.substr(12,6): last-page flag (bit 23) and digestTimestamp
EpochFields == {8388608 * last + t : last \in {0, 1}, t \in Epochs}
\* the entries after the header: {instanceId (4 bytes), count (1 byte)} each
Payloads == {[j \in 1..MaxEntries |-> [instanceId |-> 100 + j, count |-> c]] : c \in RawCounts}
DigestPackets ==
    [signature : {DIRACT_DIGEST_SIGNATURE}, header : HeaderBytes,
     instanceId : Devices, epochField : EpochFields, payload : Payloads]

\* A proximity packet has the layout of a digest packet: the byte
\* data.substr(2,2), the instanceId, the 3 bytes data.substr(12,6) (here four
\* 6-bit fields: acceleration x, y, z and battery) and entries of 5 bytes
\* {instanceId (4 bytes), rssi (1 byte)}.  The record of a packet names them
\* as for a digest packet: epochField is data.substr(12,6) and count is the
\* fifth byte of an entry.
\* acceleration fields 16 (1 g), 48 (-1 g) and 32 (none), battery field 63
SensorFields == {((16 * 64 + 48) * 64 + 32) * 64 + 63}
\* cyclicCount 5 with a frame of no entry and of one entry
ProximityHeaderBytes == {32 * 5 + 5 * n + 3 : n \in {1, 2}}
ProximityPackets ==
    [signature : {DIRACT_PROXIMITY_SIGNATURE}, header : ProximityHeaderBytes,
     instanceId : Devices, epochField : SensorFields, payload : Payloads]
\* packets of another signature, and packets too short to have one
UnknownSignatures == {"ff830500", ""}
UnknownPackets ==
    {[p EXCEPT !.signature = sig] :
        p \in {q \in DigestPackets :
                 /\ q.instanceId = 1
                 /\ q.header = 5 * MinEntries + 3
                 /\ q.epochField = 8388608 + 1},
        sig \in UnknownSignatures}
\* the digest packets of pages of MinEntries entries
ShortDigestPackets == {p \in DigestPackets : p.header % 32 = 5 * MinEntries + 3}
DispatchPackets == ProximityPackets \cup UnknownPackets \cup ShortDigestPackets

VARIABLES
    handleDirActProximity,  \* options.handleDirActProximity is set
    handleDirActDigest,     \* options.handleDirActDigest is set
    digests,                \* this.digests of the part_000 instance
    lib_digests,            \* this.digests of the lib/diractdigester.js instance
    proximityNotified,      \* calls of handleDirActProximity made by the latest
                            \* processPacket (part_000)
    lib_proximityNotified,  \* the same, by the lib instance
    digestReady,            \* calls of handleDirActDigest by the part_000 instance
    lib_digestReady,        \* calls of handleDirActDigest by the lib instance
    notified,               \* calls made by the latest processPacket (part_000)
    lib_notified,           \* calls made by the latest processPacket (lib)
    timestamp,              \* timestamp of the raddec being handled
    pending,                \* packets of the raddec not yet visited by forEach
    nPackets,               \* packets processed so far
    \* history of the run, read by the properties only
    lastPacket,             \* the packet of the latest processPacket
    repeated,               \* it is the packet of the processPacket before it
    received,               \* per device: the pages of its latest epoch
    abandoned,              \* (instanceId, epoch) discarded unhandled (part_000)
    lib_abandoned,          \* (instanceId, epoch) discarded unhandled (lib)
    recordProximity,        \* proximity packets of the raddec visited so far
    recordCalls,            \* calls of handleDirActProximity for them (part_000)
    lib_recordCalls,        \* the same, by the lib instance
    alone,                  \* per device: the map and the calls of an instance
                            \* that receives the pages of this device only
                            \* (part_000)
    lib_alone,              \* the same, of a lib instance
    \* the decoding functions taken alone
    input,                  \* the function applied and its argument
    output                  \* its result in each variant, <<>> before the call

\* the instance and the history of its run
instance == <<handleDirActProximity, handleDirActDigest, digests, lib_digests,
              proximityNotified, lib_proximityNotified,
              digestReady, lib_digestReady, notified, lib_notified, timestamp,
              pending, nPackets, lastPacket, repeated, received, abandoned,
              lib_abandoned, recordProximity, recordCalls, lib_recordCalls,
              alone, lib_alone>>

vars == <<instance, input, output>>

\* the test `digest.isHandled` (undefined until the digest is handled)
isHandled(digest) == HasOwn(digest, "isHandled") /\ digest.isHandled

\* ================================================== src/unnamed/part_000
\* addDigestPage with the entries pushed after those already held, instead of
\* written at offset + index
addDigestPage_push(digest, isLastPage, pageNumber, page) ==
    LET offset == pageNumber * DIRACT_DEVICES_PER_PAGE
        d1 == IF isLastPage
              THEN Put(digest, "numberOfInteractions", Num(offset + Len(page)))
              ELSE digest
        old == d1.interactions
        length == IF DOMAIN old = {} THEN 0
                  ELSE 1 + CHOOSE m \in DOMAIN old : \A i \in DOMAIN old : i <= m
        written == {length + index : index \in 0..(Len(page) - 1)}
    IN  Put(d1, "interactions",
            [i \in DOMAIN old \cup written |->
                IF i \in written THEN page[i - length + 1] ELSE old[i]])

\* addDigestPage(digest, isLastPage, pageNumber, page)
addDigestPage(digest, isLastPage, pageNumber, page) ==
    LET offset == pageNumber * DIRACT_DEVICES_PER_PAGE
        d1 == IF isLastPage
              THEN Put(digest, "numberOfInteractions", Num(offset + Len(page)))
              ELSE digest
        old == d1.interactions
        written == {offset + index : index \in 0..(Len(page) - 1)}
    IN  Put(d1, "interactions",
            [i \in DOMAIN old \cup written |->
                IF i \in written THEN page[i - offset + 1] ELSE old[i]])

\* createDigest with the digestTimestamp stored as the timestamp
createDigest_epochAsTimestamp(instanceId, digestTimestamp, isLastPage, pageNumber, page, ts) ==
    addDigestPage([instanceId |-> instanceId,
                   digestTimestamp |-> digestTimestamp,
                   numberOfInteractions |-> Null,
                   interactions |-> EmptyArray,
                   timestamp |-> digestTimestamp],
                  isLastPage, pageNumber, page)

\* createDigest(instanceId, digestTimestamp, isLastPage, pageNumber, page, timestamp)
createDigest(instanceId, digestTimestamp, isLastPage, pageNumber, page, ts) ==
    addDigestPage([instanceId |-> instanceId,
                   digestTimestamp |-> digestTimestamp,
                   numberOfInteractions |-> Null,
                   interactions |-> EmptyArray,
                   timestamp |-> ts],
                  isLastPage, pageNumber, page)

\* isDigestComplete(digest)
isDigestComplete(digest) ==
    IF ~HasOwn(digest, "numberOfInteractions") THEN FALSE   \* n === undefined
    ELSE IF digest.numberOfInteractions = Null THEN FALSE
    ELSE Num(Cardinality(DOMAIN digest.interactions)) = digest.numberOfInteractions

\* the tail of updateDigest: test for completion, notify, mark as handled.
\* The result is the digest kept in the map and the handler calls made.
completeDigest(digest) ==
    IF isDigestComplete(digest)
    THEN LET given == Delete(digest, "numberOfInteractions")
         IN  [digest |-> Put(given, "isHandled", TRUE), ready |-> <<given>>]
    ELSE [digest |-> digest, ready |-> <<>>]

\* updateDigest without the test of digest.isHandled
updateDigest_noHandledTest(map, instanceId, digestTimestamp, isLastPage, pageNumber, page, ts) ==
    LET isNewDevice == instanceId \notin DOMAIN map
        fresh == createDigest(instanceId, digestTimestamp, isLastPage,
                              pageNumber, page, ts)
        done(d) == LET r == completeDigest(d)
                   IN  [digests |-> MapSet(map, instanceId, r.digest),
                        ready |-> r.ready]
    IN  IF isNewDevice THEN done(fresh)
        ELSE LET digest == map[instanceId]
                 isNewDigest == digest.digestTimestamp # digestTimestamp
             IN  IF isNewDigest THEN done(fresh)
                 ELSE done(addDigestPage(digest, isLastPage, pageNumber, page))

\* updateDigest with one accumulator for all the devices: the map is cleared
\* when the page of a new device or of a new digest arrives
updateDigest_singleSlot(map, instanceId, digestTimestamp, isLastPage, pageNumber, page, ts) ==
    LET isNewDevice == instanceId \notin DOMAIN map
        fresh == createDigest(instanceId, digestTimestamp, isLastPage,
                              pageNumber, page, ts)
        done(m, d) == LET r == completeDigest(d)
                      IN  [digests |-> MapSet(m, instanceId, r.digest),
                           ready |-> r.ready]
    IN  IF isNewDevice THEN done(<<>>, fresh)
        ELSE LET digest == map[instanceId]
                 isNewDigest == digest.digestTimestamp # digestTimestamp
             IN  IF isNewDigest THEN done(<<>>, fresh)
                 ELSE IF isHandled(digest)
                      THEN [digests |-> map, ready |-> <<>>]
                      ELSE done(map, addDigestPage(digest, isLastPage,
                                                   pageNumber, page))

\* updateDigest with the accumulator of a digest deleted from the map once
\* the digest is handled, instead of kept to absorb late pages
updateDigest_evict(map, instanceId, digestTimestamp, isLastPage, pageNumber, page, ts) ==
    LET isNewDevice == instanceId \notin DOMAIN map
        fresh == createDigest(instanceId, digestTimestamp, isLastPage,
                              pageNumber, page, ts)
        done(d) == LET r == completeDigest(d)
                   IN  [digests |-> IF r.ready = <<>>
                                    THEN MapSet(map, instanceId, r.digest)
                                    ELSE [x \in DOMAIN map \ {instanceId} |-> map[x]],
                        ready |-> r.ready]
    IN  IF isNewDevice THEN done(fresh)
        ELSE LET digest == map[instanceId]
                 isNewDigest == digest.digestTimestamp # digestTimestamp
             IN  IF isNewDigest THEN done(fresh)
                 ELSE IF isHandled(digest)
                      THEN [digests |-> map, ready |-> <<>>]
                      ELSE done(addDigestPage(digest, isLastPage, pageNumber, page))

\* updateDigest(instance, instanceId, digestTimestamp, isLastPage, pageNumber,
\*              page, timestamp): the new map and the handler calls made
updateDigest(map, instanceId, digestTimestamp, isLastPage, pageNumber, page, ts) ==
    LET isNewDevice == instanceId \notin DOMAIN map
        fresh == createDigest(instanceId, digestTimestamp, isLastPage,
                              pageNumber, page, ts)
        done(d) == LET r == completeDigest(d)
                   IN  [digests |-> MapSet(map, instanceId, r.digest),
                        ready |-> r.ready]
    IN  IF isNewDevice THEN done(fresh)
        ELSE LET digest == map[instanceId]
                 isNewDigest == digest.digestTimestamp # digestTimestamp
             IN  IF isNewDigest THEN done(fresh)
                 ELSE IF isHandled(digest)
                      THEN [digests |-> map, ready |-> <<>>]
                      ELSE done(addDigestPage(digest, isLastPage, pageNumber, page))

\* the count of an entry, rescaled when above 128
decodeCount(count) ==
    IF count > 128 THEN (count % 128) * 256 ELSE count

\* the scan of processDigestPacket: one entry per 5 bytes from byte 9 on,
\* while pageIndex < frameLength + 2
RECURSIVE scanPage(_, _, _)
scanPage(pageIndex, frameLength, payload) ==
    IF pageIndex < frameLength + 2
    THEN LET raw == payload[((pageIndex - 9) \div 5) + 1]
         IN  <<[instanceId |-> raw.instanceId, count |-> decodeCount(raw.count)]>>
             \o scanPage(pageIndex + 5, frameLength, payload)
    ELSE <<>>

\* the decoding of processDigestPacket with pageNumber taken from bits 1-4
\* of the byte data.substr(2,2):  (byte >> 1) & 0x0f
decodeDigestPacket_bits1to4(packet) ==
    [frameLength |-> packet.header % 32,
     pageNumber |-> (packet.header \div 2) % 16,
     instanceId |-> packet.instanceId,
     isLastPage |-> BitSet(packet.epochField \div 1048576, 8),
     digestTimestamp |-> packet.epochField % 8388608,
     page |-> scanPage(9, packet.header % 32, packet.payload)]

\* the fields processDigestPacket decodes from a packet
decodeDigestPacket(packet) ==
    [frameLength |-> packet.header % 32,
     pageNumber |-> (packet.header \div 16) \div 2,
     instanceId |-> packet.instanceId,
     isLastPage |-> BitSet(packet.epochField \div 1048576, 8),
     digestTimestamp |-> packet.epochField % 8388608,
     page |-> scanPage(9, packet.header % 32, packet.payload)]

\* processDigestPacket(instance, packet, timestamp)
processDigestPacket(map, packet, ts) ==
    LET p == decodeDigestPacket(packet)
    IN  updateDigest(map, p.instanceId, p.digestTimestamp, p.isLastPage,
                     p.pageNumber, p.page, ts)

\* toBatteryPercentage with the quotient truncated instead of rounded
toBatteryPercentage_truncated(bits) ==
    LET data == bits % 64
    IN  (100 * data) \div 63

\* toBatteryPercentage(bits).  Math.round(q) is the integer nearest to q, the
\* upper one when q is halfway; 100 * data / 63 is never halfway (200 * data
\* is even, 63 * (2k + 1) is odd) and is at least 1/126 away from it, far
\* more than the error of the floating-point division.
toBatteryPercentage(bits) ==
    LET data == bits % 64
    IN  (2 * (100 * data) + 63) \div (2 * 63)

\* toAcceleration without the branch data > 31: the values above 31 are not
\* taken as negative
toAcceleration_unsigned(byte, isUpper) ==
    LET data == IF isUpper THEN byte \div 4 ELSE byte % 64
    IN  IF data = 32 THEN Null ELSE Ratio(data, 16)

\* toAcceleration(byte, isUpper)
toAcceleration(byte, isUpper) ==
    LET data == IF isUpper THEN byte \div 4 ELSE byte % 64
    IN  IF data = 32 THEN Null
        ELSE IF data > 31 THEN Ratio(data - 64, 16)
        ELSE Ratio(data, 16)

\* toRssi without the mask of the low 6 bits
toRssi_noMask(bits) == bits - 92

\* toRssi(bits)
toRssi(bits) == (bits % 64) - 92

\* the scan of processProximityPacket: one entry per 5 bytes from byte 9 on,
\* while nearestIndex < frameLength + 2
RECURSIVE scanNearest(_, _, _)
scanNearest(nearestIndex, frameLength, payload) ==
    IF nearestIndex < frameLength + 2
    THEN LET raw == payload[((nearestIndex - 9) \div 5) + 1]
         IN  <<[instanceId |-> raw.instanceId, rssi |-> toRssi(raw.count)]>>
             \o scanNearest(nearestIndex + 5, frameLength, payload)
    ELSE <<>>

\* the diract object processProximityPacket builds from a packet.  The three
\* bytes data.substr(12,6) hold four 6-bit fields: data.substr(12,2),
\* data.substr(13,2), data.substr(15,2) and data.substr(16,2) are the bytes
\* that start at its hexadecimal digits 0, 1, 3 and 4.
decodeProximityPacket(packet, ts) ==
    [cyclicCount |-> (packet.header \div 16) \div 2,
     instanceId |-> packet.instanceId,
     acceleration |->
         <<toAcceleration(packet.epochField \div 65536, TRUE),
           toAcceleration((packet.epochField \div 4096) % 256, FALSE),
           toAcceleration((packet.epochField \div 16) % 256, TRUE)>>,
     batteryPercentage |-> toBatteryPercentage(packet.epochField % 256),
     nearest |-> scanNearest(9, packet.header % 32, packet.payload),
     timestamp |-> ts]

\* processProximityPacket without the call of the handler
processProximityPacket_noCall(packet, ts) == <<>>

\* processProximityPacket(instance, packet, timestamp): the handler calls made
processProximityPacket(packet, ts) == <<decodeProximityPacket(packet, ts)>>

\* ============================================ src/lib/diractdigester.js
\* addDigestPage(interactions, pageNumber, page)
lib_addDigestPage(interactions, pageNumber, page) ==
    LET offset == pageNumber * DIRACT_DEVICES_PER_PAGE
        written == {offset + index : index \in 0..(Len(page) - 1)}
    IN  [i \in DOMAIN interactions \cup written |->
            IF i \in written THEN page[i - offset + 1] ELSE interactions[i]]

\* createDigest(instanceId, digestTimestamp, isLastPage, pageNumber, page)
lib_createDigest(instanceId, digestTimestamp, isLastPage, pageNumber, page) ==
    [instanceId |-> instanceId,
     digestTimestamp |-> digestTimestamp,
     numberOfInteractions |->
         IF isLastPage THEN Num(pageNumber + Len(page)) ELSE Null,
     interactions |-> lib_addDigestPage(EmptyArray, pageNumber, page)]

\* isDigestComplete(digest)
lib_isDigestComplete(digest) ==
    IF ~HasOwn(digest, "numberOfInteractions") THEN FALSE
    ELSE IF digest.numberOfInteractions = Null THEN FALSE
    ELSE Num(Cardinality(DOMAIN digest.interactions)) = digest.numberOfInteractions

lib_completeDigest(digest) ==
    IF lib_isDigestComplete(digest)
    THEN LET given == Delete(digest, "numberOfInteractions")
         IN  [digest |-> Put(given, "isHandled", TRUE), ready |-> <<given>>]
    ELSE [digest |-> digest, ready |-> <<>>]

\* updateDigest with the page of a new digest added to the accumulator of the
\* old one, whose digestTimestamp is overwritten
lib_updateDigest_merge(map, instanceId, digestTimestamp, isLastPage, pageNumber, page) ==
    LET isNewDevice == instanceId \notin DOMAIN map
        fresh == lib_createDigest(instanceId, digestTimestamp, isLastPage,
                                  pageNumber, page)
        done(d) == LET r == lib_completeDigest(d)
                   IN  [digests |-> MapSet(map, instanceId, r.digest),
                        ready |-> r.ready]
    IN  IF isNewDevice THEN done(fresh)
        ELSE LET digest == map[instanceId]
             IN  IF isHandled(digest) /\ digest.digestTimestamp = digestTimestamp
                 THEN [digests |-> map, ready |-> <<>>]
                 ELSE done([fresh EXCEPT !.interactions =
                               lib_addDigestPage(digest.interactions,
                                                 pageNumber, page)])

\* updateDigest(instance, instanceId, digestTimestamp, isLastPage, pageNumber, page)
lib_updateDigest(map, instanceId, digestTimestamp, isLastPage, pageNumber, page) ==
    LET isNewDevice == instanceId \notin DOMAIN map
        fresh == lib_createDigest(instanceId, digestTimestamp, isLastPage,
                                  pageNumber, page)
        done(d) == LET r == lib_completeDigest(d)
                   IN  [digests |-> MapSet(map, instanceId, r.digest),
                        ready |-> r.ready]
    IN  IF isNewDevice THEN done(fresh)
        ELSE LET digest == map[instanceId]
                 isNewDigest == digest.digestTimestamp # digestTimestamp
             IN  IF isNewDigest THEN done(fresh)
                 ELSE IF isHandled(digest)
                      THEN [digests |-> map, ready |-> <<>>]
                      ELSE done(Put(digest, "interactions",
                                    lib_addDigestPage(digest.interactions,
                                                      pageNumber, page)))

RECURSIVE lib_scanPage(_, _, _)
lib_scanPage(pageIndex, frameLength, payload) ==
    IF pageIndex < frameLength + 2
    THEN LET raw == payload[((pageIndex - 9) \div 5) + 1]
         IN  <<[instanceId |-> raw.instanceId, count |-> raw.count]>>
             \o lib_scanPage(pageIndex + 5, frameLength, payload)
    ELSE <<>>

lib_decodeDigestPacket(packet) ==
    [frameLength |-> packet.header % 32,
     pageNumber |-> (packet.header \div 16) \div 2,
     instanceId |-> packet.instanceId,
     isLastPage |-> BitSet(packet.epochField \div 1048576, 8),
     digestTimestamp |-> packet.epochField % 8388608,
     page |-> lib_scanPage(9, packet.header % 32, packet.payload)]

\* processDigestPacket(instance, packet)
lib_processDigestPacket(map, packet) ==
    LET p == lib_decodeDigestPacket(packet)
    IN  lib_updateDigest(map, p.instanceId, p.digestTimestamp, p.isLastPage,
                         p.pageNumber, p.page)

\* toBatteryPercentage(bits)
lib_toBatteryPercentage(bits) ==
    LET data == bits % 64
    IN  (2 * (100 * data) + 63) \div (2 * 63)

\* toAcceleration(byte, isUpper)
lib_toAcceleration(byte, isUpper) ==
    LET data == IF isUpper THEN byte \div 4 ELSE byte % 64
    IN  IF data = 32 THEN Null
        ELSE IF data > 31 THEN Ratio(data - 64, 16)
        ELSE Ratio(data, 16)

\* toRssi(bits)
lib_toRssi(bits) == (bits % 64) - 92

RECURSIVE lib_scanNearest(_, _, _)
lib_scanNearest(nearestIndex, frameLength, payload) ==
    IF nearestIndex < frameLength + 2
    THEN LET raw == payload[((nearestIndex - 9) \div 5) + 1]
         IN  <<[instanceId |-> raw.instanceId, rssi |-> lib_toRssi(raw.count)]>>
             \o lib_scanNearest(nearestIndex + 5, frameLength, payload)
    ELSE <<>>

\* the diract object processProximityPacket builds from a packet
lib_decodeProximityPacket(packet) ==
    [cyclicCount |-> (packet.header \div 16) \div 2,
     instanceId |-> packet.instanceId,
     acceleration |->
         <<lib_toAcceleration(packet.epochField \div 65536, TRUE),
           lib_toAcceleration((packet.epochField \div 4096) % 256, FALSE),
           lib_toAcceleration((packet.epochField \div 16) % 256, TRUE)>>,
     batteryPercentage |-> lib_toBatteryPercentage(packet.epochField % 256),
     nearest |-> lib_scanNearest(9, packet.header % 32, packet.payload)]

\* processProximityPacket(instance, packet): the handler calls made
lib_processProximityPacket(packet) == <<lib_decodeProximityPacket(packet)>>

\* ================================================================ history
\* the absolute indices a decoded page p is to populate
PageIndices(p) ==
    {p.pageNumber * DIRACT_DEVICES_PER_PAGE + index : index \in 0..(Len(p.page) - 1)}

\* the number of interactions a decoded last page p announces
PageExpected(p) == p.pageNumber * DIRACT_DEVICES_PER_PAGE + Len(p.page)

\* the pages received for a device since its digestTimestamp last changed:
\* the indices they carry, what the latest last page announces, and the raddec
\* timestamp of the first of them
Receive(rec, p, ts) ==
    LET id == p.instanceId
        sameEpoch == id \in DOMAIN rec /\ rec[id].digestTimestamp = p.digestTimestamp
    IN  MapSet(rec, id,
            [digestTimestamp |-> p.digestTimestamp,
             indices |-> IF sameEpoch THEN rec[id].indices \cup PageIndices(p)
                         ELSE PageIndices(p),
             expected |-> IF p.isLastPage THEN Num(PageExpected(p))
                          ELSE IF sameEpoch THEN rec[id].expected ELSE Null,
             createdAt |-> IF sameEpoch THEN rec[id].createdAt ELSE ts])

\* the (instanceId, digestTimestamp) whose accumulator page p discards unhandled
Abandon(map, p) ==
    IF /\ p.instanceId \in DOMAIN map
       /\ map[p.instanceId].digestTimestamp # p.digestTimestamp
       /\ ~isHandled(map[p.instanceId])
    THEN {<<p.instanceId, map[p.instanceId].digestTimestamp>>}
    ELSE {}

\* the instance that receives the pages of device id only, as runs holds it:
\* its map of accumulators and the calls it has made
AloneOf(runs, id) ==
    IF id \in DOMAIN runs THEN runs[id] ELSE [digests |-> <<>>, ready |-> <<>>]

\* the packet is processed by the instance of its device alone
RunAlone(runs, packet, ts) ==
    LET id == decodeDigestPacket(packet).instanceId
        r == processDigestPacket(AloneOf(runs, id).digests, packet, ts)
    IN  MapSet(runs, id, [digests |-> r.digests,
                          ready |-> AloneOf(runs, id).ready \o r.ready])

lib_RunAlone(runs, packet) ==
    LET id == lib_decodeDigestPacket(packet).instanceId
        r == lib_processDigestPacket(AloneOf(runs, id).digests, packet)
    IN  MapSet(runs, id, [digests |-> r.digests,
                          ready |-> AloneOf(runs, id).ready \o r.ready])

\* ================================================================ actions
\* the instance after the constructor, whichever handlers the options hold
Constructed ==
    /\ digests = <<>>
    /\ lib_digests = <<>>
    /\ proximityNotified = <<>>
    /\ lib_proximityNotified = <<>>
    /\ digestReady = <<>>
    /\ lib_digestReady = <<>>
    /\ notified = <<>>
    /\ lib_notified = <<>>
    /\ timestamp = 0
    /\ pending = 0
    /\ nPackets = 0
    /\ lastPacket = <<>>
    /\ repeated = FALSE
    /\ received = <<>>
    /\ abandoned = {}
    /\ lib_abandoned = {}
    /\ recordProximity = 0
    /\ recordCalls = 0
    /\ lib_recordCalls = 0
    /\ alone = <<>>
    /\ lib_alone = <<>>

\* no decoding function is applied on its own
NoDecoding == input = <<>> /\ output = <<>>

\* the instances that receive digest packets only: no proximity handler
Init ==
    /\ handleDirActProximity = FALSE
    /\ handleDirActDigest \in BOOLEAN
    /\ Constructed
    /\ NoDecoding

\* handleRaddec(raddec), up to the start of raddec.packets.forEach.  The
\* content of each packet is drawn when forEach visits it.
handleRaddec(ts, n) ==
    /\ pending = 0
    /\ nPackets + n <= MaxPackets
    /\ timestamp' = ts
    /\ pending' = n
    /\ notified' = <<>>
    /\ lib_notified' = <<>>
    /\ proximityNotified' = <<>>
    /\ lib_proximityNotified' = <<>>
    /\ recordProximity' = 0
    /\ recordCalls' = 0
    /\ lib_recordCalls' = 0
    /\ UNCHANGED <<handleDirActProximity, handleDirActDigest, digests,
                   lib_digests, digestReady, lib_digestReady, nPackets,
                   lastPacket, repeated, received, abandoned, lib_abandoned,
                   alone, lib_alone, input, output>>

\* processPacket with the handlers not tested: a packet is processed for its
\* signature alone
dispatch_handlersNotTested(signature, hasProximity, hasDigest) ==
    IF signature = DIRACT_PROXIMITY_SIGNATURE THEN "proximity"
    ELSE IF signature = DIRACT_DIGEST_SIGNATURE THEN "digest"
    ELSE "none"

\* processPacket with the digest signature not tested: every packet that is
\* not a proximity packet is processed as a digest packet
dispatch_digestByDefault(signature, hasProximity, hasDigest) ==
    IF signature = DIRACT_PROXIMITY_SIGNATURE /\ hasProximity THEN "proximity"
    ELSE IF hasDigest THEN "digest"
    ELSE "none"

\* the branch processPacket takes for a packet of the given signature, the
\* handlers being set or not
dispatch(signature, hasProximity, hasDigest) ==
    LET isDirActProximity == signature = DIRACT_PROXIMITY_SIGNATURE
        isDirActDigest == signature = DIRACT_DIGEST_SIGNATURE
    IN  IF isDirActProximity /\ hasProximity THEN "proximity"
        ELSE IF isDirActDigest /\ hasDigest THEN "digest"
        ELSE "none"

\* processPacket(instance, packet, timestamp): one iteration of forEach
processPacket(packet) ==
    LET branch == dispatch(packet.signature, handleDirActProximity,
                           handleDirActDigest)
        calls == IF branch = "proximity"
                 THEN processProximityPacket(packet, timestamp) ELSE <<>>
        lib_calls == IF branch = "proximity"
                     THEN lib_processProximityPacket(packet) ELSE <<>>
    IN  /\ pending > 0
        /\ lastPacket' = packet
        /\ repeated' = (packet = lastPacket)
        /\ pending' = pending - 1
        /\ nPackets' = nPackets + 1
        /\ proximityNotified' = calls
        /\ lib_proximityNotified' = lib_calls
        /\ recordProximity' =
             IF packet.signature = DIRACT_PROXIMITY_SIGNATURE
             THEN recordProximity + 1 ELSE recordProximity
        /\ recordCalls' = recordCalls + Len(calls)
        /\ lib_recordCalls' = lib_recordCalls + Len(lib_calls)
        /\ IF branch = "digest"
           THEN LET r == processDigestPacket(digests, packet, timestamp)
                    l == lib_processDigestPacket(lib_digests, packet)
                IN  /\ digests' = r.digests
                    /\ lib_digests' = l.digests
                    /\ digestReady' = digestReady \o r.ready
                    /\ lib_digestReady' = lib_digestReady \o l.ready
                    /\ notified' = r.ready
                    /\ lib_notified' = l.ready
                    /\ received' = Receive(received, decodeDigestPacket(packet), timestamp)
                    /\ abandoned' =
                         abandoned \cup Abandon(digests, decodeDigestPacket(packet))
                    /\ lib_abandoned' =
                         lib_abandoned
                             \cup Abandon(lib_digests, lib_decodeDigestPacket(packet))
                    /\ alone' = RunAlone(alone, packet, timestamp)
                    /\ lib_alone' = lib_RunAlone(lib_alone, packet)
           ELSE /\ notified' = <<>>
                /\ lib_notified' = <<>>
                /\ UNCHANGED <<digests, lib_digests, digestReady, lib_digestReady,
                               received, abandoned, lib_abandoned, alone,
                               lib_alone>>
        /\ UNCHANGED <<handleDirActProximity, handleDirActDigest, timestamp,
                       input, output>>

Next ==
    \/ \E ts \in Timestamps, n \in 1..MaxRaddecPackets : handleRaddec(ts, n)
    \/ \E packet \in DigestPackets : processPacket(packet)

Spec == Init /\ [][Next]_vars

\* ---- digest packets whose counts neither variant rescales
\* a raw count byte that is not above 128
SmallRawCounts == {128}
SmallCountPayloads ==
    {[j \in 1..MaxEntries |-> [instanceId |-> 100 + j, count |-> c]] :
        c \in SmallRawCounts}
SmallCountPackets ==
    [signature : {DIRACT_DIGEST_SIGNATURE}, header : HeaderBytes,
     instanceId : Devices, epochField : EpochFields, payload : SmallCountPayloads]

EquivNext ==
    \/ \E ts \in Timestamps, n \in 1..MaxRaddecPackets : handleRaddec(ts, n)
    \/ \E packet \in SmallCountPackets : processPacket(packet)

EquivSpec == Init /\ [][EquivNext]_vars

\* ---- packets of every kind, with or without each of the handlers
DispatchInit ==
    /\ handleDirActProximity \in BOOLEAN
    /\ handleDirActDigest \in BOOLEAN
    /\ Constructed
    /\ NoDecoding

DispatchNext ==
    \/ \E ts \in Timestamps, n \in 1..MaxRaddecPackets : handleRaddec(ts, n)
    \/ \E packet \in DispatchPackets : processPacket(packet)

DispatchSpec == DispatchInit /\ [][DispatchNext]_vars

\* ---- the decoding functions, each applied to every byte
\* five entries: as many as the scan reads for the longest frame
DecodePayloads ==
    {[j \in 1..5 |-> [instanceId |-> 100 + j, count |-> c]] : c \in RawCounts}
\* the packet whose byte data.substr(2,2) is header
HeaderPacket(signature, header) ==
    [signature |-> signature,
     header |-> header,
     instanceId |-> 1,
     epochField |-> CHOOSE f \in SensorFields : TRUE,
     payload |-> CHOOSE payload \in DecodePayloads : TRUE]

DecodeInputs ==
    {in \in [fn : {"toBatteryPercentage", "toAcceleration", "toRssi",
                   "processDigestPacket", "processProximityPacket"},
             byte : Bytes, isUpper : BOOLEAN] :
        in.isUpper => in.fn = "toAcceleration"}

DecodeInit ==
    /\ handleDirActProximity = FALSE
    /\ handleDirActDigest = FALSE
    /\ Constructed
    /\ input \in DecodeInputs
    /\ output = <<>>

\* each action applies one function, of both variants, to the input
callToBatteryPercentage ==
    /\ input.fn = "toBatteryPercentage"
    /\ output = <<>>
    /\ output' = [part |-> toBatteryPercentage(input.byte),
                  lib |-> lib_toBatteryPercentage(input.byte)]
    /\ UNCHANGED <<instance, input>>

callToAcceleration ==
    /\ input.fn = "toAcceleration"
    /\ output = <<>>
    /\ output' = [part |-> toAcceleration(input.byte, input.isUpper),
                  lib |-> lib_toAcceleration(input.byte, input.isUpper)]
    /\ UNCHANGED <<instance, input>>

callToRssi ==
    /\ input.fn = "toRssi"
    /\ output = <<>>
    /\ output' = [part |-> toRssi(input.byte), lib |-> lib_toRssi(input.byte)]
    /\ UNCHANGED <<instance, input>>

\* the decoding of processDigestPacket, before it calls updateDigest
callProcessDigestPacket ==
    /\ input.fn = "processDigestPacket"
    /\ output = <<>>
    /\ LET packet == HeaderPacket(DIRACT_DIGEST_SIGNATURE, input.byte)
       IN  output' = [part |-> decodeDigestPacket(packet),
                      lib |-> lib_decodeDigestPacket(packet)]
    /\ UNCHANGED <<instance, input>>

\* the decoding of processProximityPacket, before it calls the handler
callProcessProximityPacket ==
    /\ input.fn = "processProximityPacket"
    /\ output = <<>>
    /\ LET packet == HeaderPacket(DIRACT_PROXIMITY_SIGNATURE, input.byte)
       IN  output' = [part |-> decodeProximityPacket(packet, timestamp),
                      lib |-> lib_decodeProximityPacket(packet)]
    /\ UNCHANGED <<instance, input>>

DecodeNext ==
    \/ callToBatteryPercentage
    \/ callToAcceleration
    \/ callToRssi
    \/ callProcessDigestPacket
    \/ callProcessProximityPacket

DecodeSpec == DecodeInit /\ [][DecodeNext]_vars

\* ============================================================= properties
\* the map holds an accumulator for id that is not handled
Unhandled(map, id) == id \in DOMAIN map /\ ~isHandled(map[id])

\* no two of the handler calls carry the same instanceId and digestTimestamp
OncePerPair(calls) ==
    \A i, j \in 1..Len(calls) :
        (/\ calls[i].instanceId = calls[j].instanceId
         /\ calls[i].digestTimestamp = calls[j].digestTimestamp) => i = j

\* C1: over any sequence of digest pages the digest handler is invoked at
\* most once for each (instanceId, digestTimestamp): no two digest-ready
\* notifications carry the same instanceId and the same digestTimestamp.
C1_AtMostOncePerPair ==
    OncePerPair(digestReady) /\ OncePerPair(lib_digestReady)

\* no call of the latest processPacket is for an abandoned (id, epoch)
NoneAbandoned(calls, gone) ==
    \A i \in 1..Len(calls) :
        <<calls[i].instanceId, calls[i].digestTimestamp>> \notin gone

\* C2: once the unhandled accumulator of a device for epoch T1 has been
\* superseded by a page of another epoch, no page stamped T1 arriving later
\* causes digest-ready to be invoked with digestTimestamp T1.
C2_SupersededNeverNotified ==
    NoneAbandoned(notified, abandoned) /\ NoneAbandoned(lib_notified, lib_abandoned)

\* the populated indices of an emitted digest are exactly 0..N-1
GapFree(digest) ==
    DOMAIN digest.interactions = 0..(Cardinality(DOMAIN digest.interactions) - 1)

GapFreeCalls(calls) == \A i \in 1..Len(calls) : GapFree(calls[i])

\* C5: whenever digest-ready is invoked the emitted interactions are
\* gap-free: with N populated entries, exactly the indices 0..N-1 are
\* populated.
C5_EmittedGapFree ==
    GapFreeCalls(digestReady) /\ GapFreeCalls(lib_digestReady)

\* the expectedCount of every unhandled accumulator is what the latest last
\* page of its epoch announces (pageNumber * 3 + entries), null before one
ExpectedFromLastPage(map) ==
    \A id \in DOMAIN map :
        ~isHandled(map[id]) =>
            /\ HasOwn(map[id], "numberOfInteractions")
            /\ map[id].numberOfInteractions = received[id].expected

\* C7: a last page written into an accumulator that is not handled, be it
\* the page that creates the accumulator or a page added to it, leaves
\* expectedCount = pageNumber * 3 + entries of that page; before a last
\* page of the epoch has been seen expectedCount is null.
C7_ExpectedCount ==
    ExpectedFromLastPage(digests) /\ ExpectedFromLastPage(lib_digests)

\* the pages received for the epoch of device id make a complete digest
Complete(id) ==
    /\ received[id].expected # Null
    /\ Num(Cardinality(received[id].indices)) = received[id].expected

NoneCompleteUnhandled(map) ==
    \A id \in DOMAIN map : ~(~isHandled(map[id]) /\ Complete(id))

\* C8: after every call that processes a digest page no accumulator is both
\* unhandled and complete (a last page received and as many distinct
\* populated indices as it announces).
C8_PromptCompletion ==
    NoneCompleteUnhandled(digests) /\ NoneCompleteUnhandled(lib_digests)

\* C10: the timestamp of every emitted digest is the capture timestamp of
\* the page whose processing triggered the completion.
C10_TimestampOfTriggeringPage ==
    \A i \in 1..Len(notified) : notified[i].timestamp = timestamp

\* C10, amended: the timestamp of every emitted digest is the capture
\* timestamp of the page that created the accumulator, the first page of
\* its epoch.
C10_TimestampOfCreatingPage ==
    \A i \in 1..Len(notified) :
        notified[i].timestamp = received[notified[i].instanceId].createdAt

\* a digest was emitted by a page captured later than the first of its epoch
C10_Witness ==
    /\ notified # <<>>
    /\ received[notified[1].instanceId].createdAt # timestamp

\* the step is a processPacket call
Processed == nPackets' # nPackets

\* C4: from any reachable state, delivering the same digest page twice in a
\* row leaves the accumulators as delivering it once does, and the second
\* delivery notifies nobody; so a last page that completes its digest,
\* delivered twice, fires digest-ready once.
C4_Idempotent ==
    [][(Processed /\ repeated') =>
          /\ digests' = digests
          /\ notified' = <<>>
          /\ lib_digests' = lib_digests
          /\ lib_notified' = <<>>]_vars

\* a last page that completes its digest has been delivered twice in a row,
\* and digest-ready was called once for it
C4_Witness ==
    /\ repeated
    /\ handleDirActDigest
    /\ notified = <<>>
    /\ lib_notified = <<>>
    /\ LET p == decodeDigestPacket(lastPacket)
       IN  /\ p.isLastPage
           /\ isHandled(digests[p.instanceId])
           /\ isHandled(lib_digests[p.instanceId])
           /\ Len(digestReady) = 1
           /\ Len(lib_digestReady) = 1
           /\ digestReady[1].digestTimestamp = p.digestTimestamp

\* the step processes a page of the epoch of a handled accumulator of map
Absorbing(map) ==
    /\ Processed
    /\ handleDirActDigest
    /\ LET p == decodeDigestPacket(lastPacket')
       IN  /\ p.instanceId \in DOMAIN map
           /\ isHandled(map[p.instanceId])
           /\ map[p.instanceId].digestTimestamp = p.digestTimestamp

\* C6: once the accumulator of (instanceId, T) is handled, every further
\* page of instanceId stamped T leaves the accumulator unchanged and in the
\* map, and invokes no handler.
C6_HandledAbsorbs ==
    [][/\ Absorbing(digests) => (digests' = digests /\ notified' = <<>>)
       /\ Absorbing(lib_digests) =>
             (lib_digests' = lib_digests /\ lib_notified' = <<>>)]_vars

\* a page that differs from the one before it has been absorbed by the
\* handled accumulator of its epoch
C6_Witness ==
    /\ lastPacket # <<>>
    /\ ~repeated
    /\ handleDirActDigest
    /\ notified = <<>>
    /\ lib_notified = <<>>
    /\ LET p == decodeDigestPacket(lastPacket)
       IN  /\ isHandled(digests[p.instanceId])
           /\ isHandled(lib_digests[p.instanceId])
           /\ digests[p.instanceId].digestTimestamp = p.digestTimestamp
           /\ lib_digests[p.instanceId].digestTimestamp = p.digestTimestamp
           /\ ~p.isLastPage

\* ---------------------------------------------------------------- C9
\* the accumulator holds the entries of the decoded page p and nothing else
SeededBy(digest, p) ==
    /\ digest.digestTimestamp = p.digestTimestamp
    /\ DOMAIN digest.interactions = PageIndices(p)
    /\ \A i \in PageIndices(p) :
          digest.interactions[i]
              = p.page[i - p.pageNumber * DIRACT_DEVICES_PER_PAGE + 1]

\* none of the calls is for (id, epoch)
NoCallFor(calls, id, epoch) ==
    \A i \in 1..Len(calls) :
        ~(calls[i].instanceId = id /\ calls[i].digestTimestamp = epoch)

\* the step processes the decoded page p, of another epoch than the
\* accumulator that map holds for its device
Supersedes(map, p) ==
    /\ p.instanceId \in DOMAIN map
    /\ map[p.instanceId].digestTimestamp # p.digestTimestamp

\* the digestTimestamp of an accumulator changes only when a page of its
\* device with the new digestTimestamp is processed
EpochFixed(map, map2) ==
    \A id \in DOMAIN map :
        map2[id].digestTimestamp # map[id].digestTimestamp =>
            /\ Processed
            /\ decodeDigestPacket(lastPacket').instanceId = id
            /\ decodeDigestPacket(lastPacket').digestTimestamp
                   = map2[id].digestTimestamp

\* what C9 says of one variant, in a step from map to map2 that makes calls
NeverMerges(map, map2, calls, p) ==
    /\ Supersedes(map, p) =>
          /\ SeededBy(map2[p.instanceId], p)
          /\ ~isHandled(map2[p.instanceId])
          /\ NoCallFor(calls, p.instanceId, map[p.instanceId].digestTimestamp)

\* C9: a page whose digestTimestamp differs from that of the accumulator of
\* its device leaves an accumulator with the page's digestTimestamp,
\* isHandled unset and exactly the indices of this page populated, without
\* a notification for the abandoned epoch; the digestTimestamp of an
\* accumulator changes in no other way.
C9_SupersessionNeverMerges ==
    [][/\ (Processed /\ handleDirActDigest) =>
             /\ NeverMerges(digests, digests', notified',
                            decodeDigestPacket(lastPacket'))
             /\ NeverMerges(lib_digests, lib_digests', lib_notified',
                            lib_decodeDigestPacket(lastPacket'))
       /\ EpochFixed(digests, digests')
       /\ EpochFixed(lib_digests, lib_digests')]_vars

\* the decoded page p alone is a whole digest: a last page numbered 0
WholeDigest(p) == p.isLastPage /\ p.pageNumber = 0

\* C9 as amended, of one variant
NeverMergesAmended(map, map2, calls, p) ==
    /\ Supersedes(map, p) =>
          /\ SeededBy(map2[p.instanceId], p)
          /\ isHandled(map2[p.instanceId]) <=> WholeDigest(p)
          /\ ~p.isLastPage =>
                /\ HasOwn(map2[p.instanceId], "numberOfInteractions")
                /\ map2[p.instanceId].numberOfInteractions = Null
          /\ NoCallFor(calls, p.instanceId, map[p.instanceId].digestTimestamp)
          /\ Len(calls) = IF WholeDigest(p) THEN 1 ELSE 0

\* C9, amended: as C9, except that isHandled is set, and digest-ready is
\* invoked once, for the new epoch, when the superseding page is a whole
\* digest by itself (a last page numbered 0); otherwise isHandled is unset
\* and nothing is notified.
C9_SupersessionNeverMergesAmended ==
    [][/\ (Processed /\ handleDirActDigest) =>
             /\ NeverMergesAmended(digests, digests', notified',
                                   decodeDigestPacket(lastPacket'))
             /\ NeverMergesAmended(lib_digests, lib_digests', lib_notified',
                                   lib_decodeDigestPacket(lastPacket'))
       /\ EpochFixed(digests, digests')
       /\ EpochFixed(lib_digests, lib_digests')]_vars

\* a page that is a whole digest has superseded the unhandled accumulator of
\* another epoch: the new accumulator holds this page alone and is handled
C9_Witness ==
    /\ nPackets = 2
    /\ abandoned # {}
    /\ lib_abandoned # {}
    /\ notified # <<>>
    /\ lib_notified # <<>>
    /\ LET p == decodeDigestPacket(lastPacket)
       IN  /\ <<p.instanceId, p.digestTimestamp>> \notin abandoned
           /\ isHandled(digests[p.instanceId])
           /\ isHandled(lib_digests[p.instanceId])
           /\ SeededBy(digests[p.instanceId], p)

\* ---------------------------------------------------------------- C3
\* the packet of page pageNumber of a digest: `entries` entries of payload
PagePacket(id, epoch, pageNumber, entries, isLastPage, payload) ==
    [signature |-> DIRACT_DIGEST_SIGNATURE,
     header |-> 32 * pageNumber + 5 * entries + 3,
     instanceId |-> id,
     epochField |-> 8388608 * (IF isLastPage THEN 1 ELSE 0) + epoch,
     payload |-> payload]

\* the digest of pages 0..n: pages 0..n-1 not last with 3 entries, page n
\* last with k entries
DigestPages(id, epoch, n, k, payload) ==
    [pn \in 0..n |->
        PagePacket(id, epoch, pn, IF pn = n THEN k ELSE DIRACT_DEVICES_PER_PAGE,
                   pn = n, payload)]

\* the orders in which pages 0..n can arrive
Orders(n) ==
    {f \in [1..(n + 1) -> 0..n] : \A i, j \in 1..(n + 1) : f[i] = f[j] => i = j}

\* the handler calls of each of the packets, delivered in turn
RECURSIVE deliver(_, _, _)
deliver(map, packets, ts) ==
    IF packets = <<>> THEN <<>>
    ELSE LET r == processDigestPacket(map, Head(packets), ts)
         IN  <<r.ready>> \o deliver(r.digests, Tail(packets), ts)

RECURSIVE lib_deliver(_, _)
lib_deliver(map, packets) ==
    IF packets = <<>> THEN <<>>
    ELSE LET r == lib_processDigestPacket(map, Head(packets))
         IN  <<r.ready>> \o lib_deliver(r.digests, Tail(packets))

\* the calls made by n + 1 packets are one call, by the last packet, with the
\* 3n + k interactions in the order of their absolute index
FiresOnceAtEnd(calls, id, epoch, n, k, interactions) ==
    /\ \A i \in 1..n : calls[i] = <<>>
    /\ Len(calls[n + 1]) = 1
    /\ calls[n + 1][1].instanceId = id
    /\ calls[n + 1][1].digestTimestamp = epoch
    /\ calls[n + 1][1].interactions = interactions

\* the device has no accumulator of the epoch
NewEpoch(map, id, epoch) ==
    id \notin DOMAIN map \/ map[id].digestTimestamp # epoch

\* order-independence of the part_000 variant
OrderIndependent ==
    \A id \in Devices, epoch \in Epochs, n \in 0..MaxPage,
       k \in 1..DIRACT_DEVICES_PER_PAGE, payload \in Payloads :
        NewEpoch(digests, id, epoch) =>
            \A f \in Orders(n) :
                LET pages == DigestPages(id, epoch, n, k, payload)
                    whole == [i \in 0..(DIRACT_DEVICES_PER_PAGE * n + k - 1) |->
                                 LET raw == payload[(i % DIRACT_DEVICES_PER_PAGE) + 1]
                                 IN  [instanceId |-> raw.instanceId,
                                      count |-> decodeCount(raw.count)]]
                IN  FiresOnceAtEnd(
                        deliver(digests, [i \in 1..(n + 1) |-> pages[f[i]]], timestamp),
                        id, epoch, n, k, whole)

\* order-independence of the lib variant
lib_OrderIndependent ==
    \A id \in Devices, epoch \in Epochs, n \in 0..MaxPage,
       k \in 1..DIRACT_DEVICES_PER_PAGE, payload \in Payloads :
        NewEpoch(lib_digests, id, epoch) =>
            \A f \in Orders(n) :
                LET pages == DigestPages(id, epoch, n, k, payload)
                    whole == [i \in 0..(DIRACT_DEVICES_PER_PAGE * n + k - 1) |->
                                 payload[(i % DIRACT_DEVICES_PER_PAGE) + 1]]
                IN  FiresOnceAtEnd(
                        lib_deliver(lib_digests, [i \in 1..(n + 1) |-> pages[f[i]]]),
                        id, epoch, n, k, whole)

\* C3: for one device and one epoch, the pages 0..n of a digest (pages
\* 0..n-1 not last with 3 entries, page n last with 1 to 3 entries),
\* delivered in any order with no page of another epoch in between, fire
\* digest-ready once, on the arrival of the last missing page, with the same
\* instanceId, digestTimestamp and 3n + k interactions in every order.
C3_OrderIndependent == OrderIndependent /\ lib_OrderIndependent

\* ------------------------------------------------------- C11, C12, C13
\* the step is a processPacket call on a packet of signature sig
ProcessedOf(sig) == Processed /\ lastPacket'.signature = sig

\* the step calls no handler and leaves the maps of accumulators as they are
NoEffect ==
    /\ digests' = digests
    /\ lib_digests' = lib_digests
    /\ proximityNotified' = <<>>
    /\ lib_proximityNotified' = <<>>
    /\ notified' = <<>>
    /\ lib_notified' = <<>>
    /\ digestReady' = digestReady
    /\ lib_digestReady' = lib_digestReady

\* the page of the packet of the step is in the accumulator of its device
Accumulated(map2) ==
    LET p == decodeDigestPacket(lastPacket')
    IN  /\ p.instanceId \in DOMAIN map2
        /\ map2[p.instanceId].digestTimestamp = p.digestTimestamp

\* handleDirActProximity is called once, for the packet of the step
CalledForPacket(calls) ==
    /\ Len(calls) = 1
    /\ calls[1].instanceId = lastPacket'.instanceId
    /\ calls[1].cyclicCount = lastPacket'.header \div 32

\* C11: a proximity packet processed while no proximity handler is set, and
\* a digest packet processed while no digest handler is set, call no handler
\* and leave the map of accumulators unchanged; a packet whose handler is set
\* is dispatched to it whether or not the other handler is set.
C11_UnregisteredNoOp ==
    [][/\ (ProcessedOf(DIRACT_PROXIMITY_SIGNATURE) /\ ~handleDirActProximity)
              => NoEffect
       /\ (ProcessedOf(DIRACT_DIGEST_SIGNATURE) /\ ~handleDirActDigest)
              => NoEffect
       /\ (ProcessedOf(DIRACT_PROXIMITY_SIGNATURE) /\ handleDirActProximity)
              => /\ CalledForPacket(proximityNotified')
                 /\ CalledForPacket(lib_proximityNotified')
       /\ (ProcessedOf(DIRACT_DIGEST_SIGNATURE) /\ handleDirActDigest)
              => /\ Accumulated(digests')
                 /\ Accumulated(lib_digests')]_vars

\* with the digest handler alone, a proximity packet that follows an
\* accumulated digest page has been skipped
C11_Witness ==
    /\ ~handleDirActProximity
    /\ handleDirActDigest
    /\ lastPacket # <<>>
    /\ lastPacket.signature = DIRACT_PROXIMITY_SIGNATURE
    /\ digests # <<>>
    /\ lib_digests # <<>>
    /\ recordProximity > 0
    /\ recordCalls = 0
    /\ lib_recordCalls = 0

\* C12: a packet whose signature is neither the proximity nor the digest
\* signature calls no handler and leaves the map of accumulators unchanged,
\* whichever handlers are set.
C12_UnknownSignature ==
    [][(/\ Processed
        /\ lastPacket'.signature \notin
               {DIRACT_PROXIMITY_SIGNATURE, DIRACT_DIGEST_SIGNATURE})
           => NoEffect]_vars

\* with both handlers set, a packet of an unknown signature has been skipped
\* after a digest page was accumulated
C12_Witness ==
    /\ handleDirActProximity
    /\ handleDirActDigest
    /\ lastPacket # <<>>
    /\ lastPacket.signature \in UnknownSignatures
    /\ digests # <<>>
    /\ lib_digests # <<>>
    /\ notified = <<>>

\* the accumulator of id is handled in map2 and was not in map
NewlyHandled(map, map2, id) ==
    /\ id \in DOMAIN map2
    /\ isHandled(map2[id])
    /\ ~(/\ id \in DOMAIN map
          /\ isHandled(map[id])
          /\ map[id].digestTimestamp = map2[id].digestTimestamp)

\* the digest that became handled in the step was given to the handler in
\* the step, and nothing else was
DeliveredInStep(map, map2, calls) ==
    /\ \A id \in DOMAIN map2 :
          NewlyHandled(map, map2, id) =>
              /\ ProcessedOf(DIRACT_DIGEST_SIGNATURE)
              /\ Len(calls) = 1
              /\ calls[1].instanceId = id
              /\ calls[1].digestTimestamp = map2[id].digestTimestamp
    /\ \A i \in 1..Len(calls) : NewlyHandled(map, map2, calls[i].instanceId)

\* C13: with a proximity handler set, the handler is called once for each
\* proximity packet of a raddec, within the processPacket call of that packet
\* (so in packet order, before the next packet is processed and before
\* handleRaddec returns); a digest is given to the digest handler within the
\* processPacket call of the page that completes it; a proximity packet
\* never changes the map of accumulators.
C13_SynchronousInOrder ==
    /\ [][/\ (ProcessedOf(DIRACT_PROXIMITY_SIGNATURE) /\ handleDirActProximity)
                 => /\ CalledForPacket(proximityNotified')
                    /\ CalledForPacket(lib_proximityNotified')
          /\ (Processed /\ lastPacket'.signature # DIRACT_PROXIMITY_SIGNATURE)
                 => /\ proximityNotified' = <<>>
                    /\ lib_proximityNotified' = <<>>
          /\ ProcessedOf(DIRACT_PROXIMITY_SIGNATURE)
                 => /\ digests' = digests
                    /\ lib_digests' = lib_digests
          /\ DeliveredInStep(digests, digests', notified')
          /\ DeliveredInStep(lib_digests, lib_digests', lib_notified')]_vars
    /\ [](handleDirActProximity =>
             /\ recordCalls = recordProximity
             /\ lib_recordCalls = recordProximity)

\* handleRaddec has returned from a raddec of two different proximity
\* packets, the handler called twice, an accumulator being in the map
C13_Witness ==
    /\ handleDirActProximity
    /\ pending = 0
    /\ ~repeated
    /\ recordProximity = 2
    /\ recordCalls = 2
    /\ lib_recordCalls = 2
    /\ digests # <<>>

\* ---------------------------------------------------------------- C20
\* C20: the set of instanceIds that have an accumulator never shrinks,
\* whatever packet is processed, and it is the set of the devices that have
\* sent a digest page while the digest handler was set.
C20_NeverRemoved ==
    /\ [][/\ DOMAIN digests \subseteq DOMAIN digests'
          /\ DOMAIN lib_digests \subseteq DOMAIN lib_digests']_vars
    /\ [](/\ DOMAIN digests = DOMAIN received
          /\ DOMAIN lib_digests = DOMAIN received)

\* a packet that is no digest page has been processed while the map held a
\* handled accumulator and the accumulator of another device
C20_Witness ==
    /\ lastPacket # <<>>
    /\ lastPacket.signature # DIRACT_DIGEST_SIGNATURE
    /\ DOMAIN digests = Devices
    /\ DOMAIN lib_digests = Devices
    /\ \E id \in Devices : isHandled(digests[id]) /\ isHandled(lib_digests[id])

\* ---------------------------------------------------------------- C21
\* the calls made for device id, in the order they were made
RECURSIVE CallsFor(_, _)
CallsFor(calls, id) ==
    IF calls = <<>> THEN <<>>
    ELSE (IF Head(calls).instanceId = id THEN <<Head(calls)>> ELSE <<>>)
             \o CallsFor(Tail(calls), id)

\* the step from map to map2, which processes a page of device id and makes
\* calls, leaves the accumulators of the other devices as they are and makes
\* calls for id only
OthersUntouched(map, map2, calls, id) ==
    /\ \A other \in DOMAIN map \ {id} :
          other \in DOMAIN map2 /\ map2[other] = map[other]
    /\ \A i \in 1..Len(calls) : calls[i].instanceId = id

\* each device has the accumulator, and has had the calls, of the instance
\* that receives its pages alone
AsAlone(map, calls, runs) ==
    /\ DOMAIN map = DOMAIN runs
    /\ \A id \in DOMAIN map :
          /\ DOMAIN runs[id].digests = {id}
          /\ map[id] = runs[id].digests[id]
          /\ CallsFor(calls, id) = runs[id].ready

\* C21: processing a digest page of a device leaves the accumulator of
\* every other device unchanged; for any interleaving of the pages of
\* several devices, the digest-ready calls for each device, and its
\* accumulator, are those of the same pages delivered alone in the same
\* order.
C21_PerDeviceIsolation ==
    /\ [][(Processed /\ handleDirActDigest) =>
             /\ OthersUntouched(digests, digests', notified',
                                decodeDigestPacket(lastPacket').instanceId)
             /\ OthersUntouched(lib_digests, lib_digests', lib_notified',
                                lib_decodeDigestPacket(lastPacket').instanceId)]_vars
    /\ [](/\ AsAlone(digests, digestReady, alone)
          /\ AsAlone(lib_digests, lib_digestReady, lib_alone))

\* the pages of two devices have been interleaved: two digests were emitted,
\* for two devices, the later one a digest of two pages begun at an earlier
\* raddec than the one emitted first
C21_Witness ==
    /\ Len(digestReady) = 2
    /\ digestReady[1].instanceId # digestReady[2].instanceId
    /\ Cardinality(DOMAIN digestReady[2].interactions) > DIRACT_DEVICES_PER_PAGE
    /\ digestReady[2].timestamp < digestReady[1].timestamp
    /\ DOMAIN lib_digests = Devices

\* ---------------------------------------------------------------- C19
\* the two variants made the same calls of the digest handler, the timestamp
\* of part_000 aside
SameCalls(calls, lib_calls) ==
    /\ Len(calls) = Len(lib_calls)
    /\ \A i \in 1..Len(calls) :
          /\ calls[i].instanceId = lib_calls[i].instanceId
          /\ calls[i].digestTimestamp = lib_calls[i].digestTimestamp
          /\ calls[i].interactions = lib_calls[i].interactions

\* two accumulators agree on populated indices, expectedCount and isHandled
Agree(digest, lib_digest) ==
    /\ digest.digestTimestamp = lib_digest.digestTimestamp
    /\ DOMAIN digest.interactions = DOMAIN lib_digest.interactions
    /\ HasOwn(digest, "numberOfInteractions")
          = HasOwn(lib_digest, "numberOfInteractions")
    /\ HasOwn(digest, "numberOfInteractions") =>
          digest.numberOfInteractions = lib_digest.numberOfInteractions
    /\ isHandled(digest) = isHandled(lib_digest)

\* C19: on any sequence of digest pages whose raw counts are all <= 128 the
\* two variants call the digest handler at the same pages with the same
\* instanceId, digestTimestamp and interactions, and their accumulators
\* agree after every page on populated indices, expectedCount and isHandled.
C19_VariantsEquivalent ==
    /\ SameCalls(notified, lib_notified)
    /\ SameCalls(digestReady, lib_digestReady)
    /\ DOMAIN digests = DOMAIN lib_digests
    /\ \A id \in DOMAIN digests : Agree(digests[id], lib_digests[id])

\* ------------------------------------------------------------ C14 .. C18
\* the function fn has been applied to the input
Called(fn) == input.fn = fn /\ output # <<>>

\* the absolute indices of page pageNumber when every page has at most
\* DIRACT_DEVICES_PER_PAGE entries
IndicesOfPage(pageNumber) ==
    {pageNumber * DIRACT_DEVICES_PER_PAGE + index :
        index \in 0..(DIRACT_DEVICES_PER_PAGE - 1)}

\* what C14 says of a decoded page
AtMostThree(p) ==
    /\ Len(p.page) <= DIRACT_DEVICES_PER_PAGE
    /\ PageIndices(p) \cap IndicesOfPage(p.pageNumber + 1) = {}

\* C14: every decoded digest page has at most 3 entries, whatever the
\* frameLength (0..31), so the absolute indices page n writes never overlap
\* those of page n + 1.
C14_AtMostThreeEntries ==
    Called("processDigestPacket") =>
        AtMostThree(output.part) /\ AtMostThree(output.lib)

\* what C15 says of a decoded pageNumber or cyclicCount
Bits1to4(byte, decoded) == decoded = (byte \div 2) % 16

\* C15: for every byte b that carries frameLength (b & 0x1f), the decoded
\* pageNumber of a digest page and the decoded cyclicCount of a proximity
\* packet are bits 1-4 of b, (b >> 1) & 0x0f.
C15_PageNumberBits1to4 ==
    /\ Called("processDigestPacket") =>
          /\ Bits1to4(input.byte, output.part.pageNumber)
          /\ Bits1to4(input.byte, output.lib.pageNumber)
    /\ Called("processProximityPacket") =>
          /\ Bits1to4(input.byte, output.part.cyclicCount)
          /\ Bits1to4(input.byte, output.lib.cyclicCount)

\* the decoded value is bits 5-7 of the byte, the three bits above the five
\* of frameLength
Bits5to7(byte, decoded, frameLength) ==
    /\ decoded = byte \div 32
    /\ decoded \in 0..7
    /\ frameLength = byte % 32
    /\ byte = 32 * decoded + frameLength

\* C15, amended: the decoded pageNumber of a digest page and the decoded
\* cyclicCount of a proximity packet are bits 5-7 of the byte b whose low
\* five bits are frameLength, b >> 5, and take every value in 0..7.
C15_PageNumberBits5to7 ==
    /\ Called("processDigestPacket") =>
          /\ Bits5to7(input.byte, output.part.pageNumber, output.part.frameLength)
          /\ Bits5to7(input.byte, output.lib.pageNumber, output.lib.frameLength)
    /\ Called("processProximityPacket") =>
          /\ Bits5to7(input.byte, output.part.cyclicCount, input.byte % 32)
          /\ Bits5to7(input.byte, output.lib.cyclicCount, input.byte % 32)
    /\ \A n \in 0..7 :
          \E b \in Bytes :
             LET packet == HeaderPacket(DIRACT_DIGEST_SIGNATURE, b)
                 report == HeaderPacket(DIRACT_PROXIMITY_SIGNATURE, b)
             IN  /\ decodeDigestPacket(packet).pageNumber = n
                 /\ lib_decodeDigestPacket(packet).pageNumber = n
                 /\ decodeProximityPacket(report, timestamp).cyclicCount = n
                 /\ lib_decodeProximityPacket(report).cyclicCount = n

\* the page of a byte whose bits 1-4 and bits 5-7 differ has been decoded,
\* with the highest page number
C15_Witness ==
    /\ Called("processDigestPacket")
    /\ output.part.pageNumber = 7
    /\ output.lib.pageNumber = 7
    /\ ~Bits1to4(input.byte, output.part.pageNumber)

\* r is the integer nearest to n / d
Nearest(r, n, d) ==
    /\ 2 * (d * r - n) < d
    /\ 2 * (n - d * r) < d

\* what C16 says of the result r for the byte b, toBattery being the function
BatteryOf(b, r, toBattery(_)) ==
    LET v == b % 64
    IN  /\ Nearest(r, 100 * v, 63)
        /\ r \in 0..100
        /\ v = 0 => r = 0
        /\ v = 63 => r = 100
        /\ \A b2 \in Bytes : (b2 % 64) <= v => toBattery(b2) <= r

\* C16: for every byte b the result of toBatteryPercentage is round(100 * v
\* / 63) with v = b & 0x3f, an integer in 0..100, 0 for v = 0, 100 for
\* v = 63, and monotonic non-decreasing in v.
C16_BatteryPercentage ==
    Called("toBatteryPercentage") =>
        /\ BatteryOf(input.byte, output.part, toBatteryPercentage)
        /\ BatteryOf(input.byte, output.lib, lib_toBatteryPercentage)

\* a byte with bits above the low six has been decoded, to a quotient that
\* is rounded upwards
C16_Witness ==
    /\ Called("toBatteryPercentage")
    /\ input.byte > 63
    /\ 63 * output.part > 100 * (input.byte % 64)
    /\ output.lib = output.part

\* what C17 says of the result r for the byte b
AccelerationOf(b, isUpper, r) ==
    LET v == IF isUpper THEN (b \div 4) % 64 ELSE b % 64
    IN  /\ r = Null <=> v = 32
        /\ v \in 0..31 => r = Ratio(v, 16)
        /\ v \in 33..63 => r = Ratio(v - 64, 16)
        /\ r # Null => (-31 * r.den <= 16 * r.num /\ 16 * r.num <= 31 * r.den)
        /\ (b = 0 /\ ~isUpper) => r.num = 0
        /\ (b = 16 /\ ~isUpper) => r.num = r.den
        /\ (b = 48 /\ ~isUpper) => r.num = -r.den

\* C17: for every byte b, with v = (b >> 2) & 0x3f when isUpper and
\* v = b & 0x3f otherwise, the result of toAcceleration is null exactly when
\* v = 32, v / 16 for v in 0..31 and (v - 64) / 16 for v in 33..63; it is 0,
\* 1 and -1 for the bytes 0, 16 and 48 (not isUpper) and lies within
\* [-31/16, 31/16].
C17_Acceleration ==
    Called("toAcceleration") =>
        /\ AccelerationOf(input.byte, input.isUpper, output.part)
        /\ AccelerationOf(input.byte, input.isUpper, output.lib)

\* the upper field of a byte has been decoded to a negative value
C17_Witness ==
    /\ Called("toAcceleration")
    /\ input.isUpper
    /\ input.byte = 48 * 4 + 3
    /\ output.part = Ratio(-16, 16)
    /\ output.lib = Ratio(-16, 16)

\* what C18 says of the result r for the byte b
RssiOf(b, r) ==
    /\ r = (b % 64) - 92
    /\ r \in (-92)..(-29)
    /\ b = 0 => r = -92
    /\ b = 63 => r = -29

\* C18: for every byte b the result of toRssi is (b & 0x3f) - 92, within
\* [-92, -29]; it is -92 for 0 and -29 for 63.
C18_Rssi ==
    Called("toRssi") =>
        /\ RssiOf(input.byte, output.part)
        /\ RssiOf(input.byte, output.lib)

\* a byte with bits above the low six has been decoded to the highest rssi
C18_Witness ==
    /\ Called("toRssi")
    /\ input.byte > 63
    /\ output.part = -29
    /\ output.lib = -29

====
